---- MODULE Spec2Model ----
(***************************************************************************)
(* Model of Events/aetheric-purity-research.py: pick the three input       *)
(* values whose mean is closest to 7.0 and report the triple, its mean and *)
(* the mean rounded up to the next thousandth.                             *)
(*                                                                         *)
(* Python floats are modelled as a small IEEE-754 style binary format with *)
(* round-to-nearest-even: a finite float is an integer count of units of   *)
(* 2^-FracBits that has at most Prec significant bits; magnitudes of       *)
(* 2^ExpMax and more are infinite.  CPython uses Prec = 53 and             *)
(* ExpMax = 1024; the small format keeps the rounding of every operation   *)
(* (and so its order dependence), overflow to infinity, and NaN.  The sign *)
(* of zero is not tracked.                                                 *)
(***************************************************************************)
EXTENDS Integers, Sequences, FiniteSets, TLC

\* ---- bounds of the model ------------------------------------------------
MaxArgs == 4
Prec == 16
FracBits == 13
ExpMax == 14

\* ---- the float format ---------------------------------------------------
Unit == 2 ^ FracBits
Lim == 2 ^ (ExpMax + FracBits)
PosInf == Lim
NegInf == 0 - Lim
NaN == Lim + 1

IsNaN(x) == x = NaN
IsFinite(x) == x > NegInf /\ x < PosInf

\* round half to even of n/d, n >= 0, d > 0
RoundHalfEven(n, d) ==
    LET q == n \div d
        r == n % d
    IN  IF 2 * r > d \/ (2 * r = d /\ q % 2 = 1) THEN q + 1 ELSE q

RECURSIVE ShiftOf(_, _, _)
ShiftOf(n, d, e) ==
    IF n \div (2 ^ Prec) < d * (2 ^ e) THEN e ELSE ShiftOf(n, d, e + 1)

\* the float nearest to n/d units, n >= 0, d > 0
RoundMag(n, d) ==
    IF n \div d >= Lim THEN PosInf
    ELSE LET e == ShiftOf(n, d, 0)
             x == RoundHalfEven(n, d * (2 ^ e)) * (2 ^ e)
         IN  IF x >= Lim THEN PosInf ELSE x

RoundQ(n, d) == IF n < 0 THEN 0 - RoundMag(0 - n, d) ELSE RoundMag(n, d)

FNeg(a) == IF IsNaN(a) THEN NaN ELSE 0 - a
FAbs(a) == IF IsNaN(a) THEN NaN ELSE IF a < 0 THEN 0 - a ELSE a

FAdd(a, b) ==
    IF IsNaN(a) \/ IsNaN(b) THEN NaN
    ELSE IF ~IsFinite(a) THEN (IF ~IsFinite(b) /\ a # b THEN NaN ELSE a)
    ELSE IF ~IsFinite(b) THEN b
    ELSE RoundQ(a + b, 1)

FSub(a, b) == FAdd(a, FNeg(b))

\* a / d for an integer d > 0 that the format holds exactly
FDivInt(a, d) ==
    IF IsNaN(a) \/ ~IsFinite(a) THEN a ELSE RoundQ(a, d)

\* a * m for an integer m > 0 that the format holds exactly
FMulInt(a, m) ==
    IF IsNaN(a) \/ ~IsFinite(a) THEN a
    ELSE IF a > Lim \div m THEN PosInf
    ELSE IF 0 - a > Lim \div m THEN NegInf
    ELSE RoundQ(a * m, 1)

\* comparisons: every comparison with NaN is false
FLt(a, b) == ~IsNaN(a) /\ ~IsNaN(b) /\ a < b
FLe(a, b) == ~IsNaN(a) /\ ~IsNaN(b) /\ a <= b
FEq(a, b) == ~IsNaN(a) /\ ~IsNaN(b) /\ a = b

\* float("<n>e-<k>"): the float nearest to the decimal n * 10^-k, k <= FracBits
FromDec(n, k) == RoundQ(n * (2 ^ (FracBits - k)), 5 ^ k)

\* float(n) of a Python int
FromInt(n) == RoundQ(n * Unit, 1)

\* math.ceil of a finite float: a Python int
CeilInt(y) == 0 - ((0 - y) \div Unit)

\* "%.3f" % x for finite x: the number of thousandths printed
Format3(x) ==
    IF x < 0 THEN 0 - RoundHalfEven((0 - x) * 1000, Unit)
    ELSE RoundHalfEven(x * 1000, Unit)

\* "%.12f" % x for finite x: <<sign, integer part, decimals 1-6, decimals 7-12>>
Format12(x) ==
    LET m == IF x < 0 THEN 0 - x ELSE x
        r0 == m % Unit
        g1 == (r0 * 1000) \div Unit
        r1 == (r0 * 1000) % Unit
        g2 == (r1 * 1000) \div Unit
        r2 == (r1 * 1000) % Unit
        g3 == (r2 * 1000) \div Unit
        r3 == (r2 * 1000) % Unit
        g4 == (r3 * 1000) \div Unit
        r4 == (r3 * 1000) % Unit
        up == 2 * r4 > Unit \/ (2 * r4 = Unit /\ g4 % 2 = 1)
        lo == g3 * 1000 + g4 + (IF up THEN 1 ELSE 0)
        hi == g1 * 1000 + g2 + (lo \div 1000000)
    IN  <<IF x < 0 THEN 0 - 1 ELSE 1, (m \div Unit) + (hi \div 1000000),
          hi % 1000000, lo % 1000000>>

\* ---- program constants ---------------------------------------------------
K == 3
TARGET_MEAN == FromInt(7)
TARGET_SUM == FMulInt(TARGET_MEAN, K)

\* ---- ceil_to_thousandth --------------------------------------------------
\* math.ceil raises OverflowError on an infinity and ValueError on a NaN
ceil_to_thousandth(x) ==
    LET y == FMulInt(x, 1000)
    IN  IF IsNaN(y) THEN [ok |-> FALSE, val |-> 0, err |-> "ValueError"]
        ELSE IF ~IsFinite(y) THEN [ok |-> FALSE, val |-> 0, err |-> "OverflowError"]
        ELSE [ok |-> TRUE, val |-> FDivInt(FromInt(CeilInt(y)), 1000), err |-> ""]

\* ---- command-line tokens -------------------------------------------------
\* a decimal literal n * 10^-k, "inf", "nan", a word that is no number, and a
\* text in square brackets that is a JSON array of decimal literals or is not
Lit(n, k) == [kind |-> "lit", n |-> n, k |-> k, elems |-> <<>>]
InfTok == [kind |-> "inf", n |-> 0, k |-> 0, elems |-> <<>>]
NanTok == [kind |-> "nan", n |-> 0, k |-> 0, elems |-> <<>>]
Word == [kind |-> "word", n |-> 0, k |-> 0, elems |-> <<>>]
Json(es) == [kind |-> "json", n |-> 0, k |-> 0, elems |-> es]
BadJson == [kind |-> "badjson", n |-> 0, k |-> 0, elems |-> <<>>]

\* s.startswith('[') and s.endswith(']')
IsBracketed(t) == t.kind \in {"json", "badjson"}

\* float(a) raises ValueError unless a is a number text
Converts(t) == t.kind \in {"lit", "inf", "nan"}

ToFloat(t) ==
    CASE t.kind = "lit" -> FromDec(t.n, t.k)
      [] t.kind = "inf" -> PosInf
      [] t.kind = "nan" -> NaN

Msg(type, vals) == [type |-> type, vals |-> vals]
Line(tag, vals) == [line |-> tag, vals |-> vals]

\* parse_values that leaves out the tokens float() rejects
parse_values_skipping(a) ==
    LET good == SelectSeq(a, Converts)
    IN  [ok |-> TRUE, err |-> "", vals |-> [i \in 1..Len(good) |-> ToFloat(good[i])]]

parse_values(a) ==
    IF Len(a) = 1 /\ IsBracketed(a[1])
    THEN IF a[1].kind = "json"
         THEN [ok |-> TRUE, err |-> "",
               vals |-> [i \in 1..Len(a[1].elems) |->
                            FromDec(a[1].elems[i][1], a[1].elems[i][2])]]
         ELSE [ok |-> FALSE, err |-> "JsonError", vals |-> <<>>]
    ELSE IF \A i \in 1..Len(a) : Converts(a[i])
         THEN [ok |-> TRUE, err |-> "", vals |-> [i \in 1..Len(a) |-> ToFloat(a[i])]]
         ELSE [ok |-> FALSE, err |-> "ParseError", vals |-> <<>>]

\* not (0.001 <= v <= 14.0)
OutOfRange(v) == ~(FLe(FromDec(1, 3), v) /\ FLe(v, FromInt(14)))

BadValues(vs) == SelectSeq(vs, OutOfRange)

\* ---- itertools.combinations(values, K) -----------------------------------
FirstIndices(n) == IF n < K THEN <<>> ELSE [p \in 1..K |-> p]

NextIndices(ix, n) ==
    IF \A p \in 1..K : ix[p] = n - K + p THEN <<>>
    ELSE LET i == CHOOSE p \in 1..K :
                      /\ ix[p] # n - K + p
                      /\ \A q \in (p + 1)..K : ix[q] = n - K + q
         IN  [p \in 1..K |-> IF p < i THEN ix[p] ELSE ix[i] + 1 + (p - i)]

\* the combination with its positions taken last to first
CombAtReversed(vs, ix) == [p \in 1..K |-> vs[ix[K + 1 - p]]]

CombAt(vs, ix) == [p \in 1..K |-> vs[ix[p]]]

\* ---- the selection key ---------------------------------------------------
\* sum(comb): 0 + c[1] + c[2] + c[3], left to right
SumOf(c) == FAdd(FAdd(FAdd(0, c[1]), c[2]), c[3])

\* insertion into an ascending run, comparing with < only
RECURSIVE InsertSorted(_, _)
InsertSorted(s, v) ==
    IF s = <<>> THEN <<v>>
    ELSE IF FLt(v, s[Len(s)])
         THEN Append(InsertSorted(SubSeq(s, 1, Len(s) - 1), v), s[Len(s)])
         ELSE Append(s, v)

SortedTuple(c) == InsertSorted(InsertSorted(InsertSorted(<<>>, c[1]), c[2]), c[3])

KeyOf(c) ==
    LET s == SumOf(c)
        mean == FDivInt(s, K)
    IN  <<FAbs(FSub(mean, TARGET_MEAN)), FAbs(FSub(s, TARGET_SUM)), SortedTuple(c)>>

\* tuple < tuple: decided at the first position where the items are not ==
TupleLt(a, b) ==
    IF ~FEq(a[1], b[1]) THEN FLt(a[1], b[1])
    ELSE IF ~FEq(a[2], b[2]) THEN FLt(a[2], b[2])
    ELSE FLt(a[3], b[3])

KeyLt(k1, k2) ==
    IF ~FEq(k1[1], k2[1]) THEN FLt(k1[1], k2[1])
    ELSE IF ~FEq(k1[2], k2[2]) THEN FLt(k1[2], k2[2])
    ELSE TupleLt(k1[3], k2[3])

\* the loop body with "key[0] < best_key[0]" for "key < best_key"
SelectStepDiffOnly(bc, bk, comb) ==
    LET key == KeyOf(comb)
    IN  IF bk = <<>> \/ FLt(key[1], bk[1]) THEN <<comb, key>> ELSE <<bc, bk>>

\* the loop body with "not best_key < key" for "key < best_key"
SelectStepLe(bc, bk, comb) ==
    LET key == KeyOf(comb)
    IN  IF bk = <<>> \/ ~KeyLt(bk, key) THEN <<comb, key>> ELSE <<bc, bk>>

\* one pass of the loop body: <<best_comb, best_key>> afterwards
SelectStep(bc, bk, comb) ==
    LET key == KeyOf(comb)
    IN  IF bk = <<>> \/ KeyLt(key, bk) THEN <<comb, key>> ELSE <<bc, bk>>

\* ---- the run from the parsed values on, as a function --------------------
RECURSIVE SelectFrom(_, _, _, _)
SelectFrom(vs, ix, bc, bk) ==
    IF ix = <<>> THEN bc
    ELSE LET r == SelectStep(bc, bk, CombAt(vs, ix))
         IN  SelectFrom(vs, NextIndices(ix, Len(vs)), r[1], r[2])

BestOf(vs) == SelectFrom(vs, FirstIndices(Len(vs)), <<>>, <<>>)

\* the lines on standard output, <<>> when math.ceil raises
ReportOf(vs) ==
    LET bc == BestOf(vs)
        m == FDivInt(SumOf(bc), K)
        c == ceil_to_thousandth(m)
    IN  IF c.ok
        THEN <<Line("Best triple", bc), Line("Exact mean", Format12(m)),
               Line("Mean rounded UP", <<Format3(c.val)>>)>>
        ELSE <<>>

\* ---- the state of one run ------------------------------------------------
VARIABLES
    argv,          \* sys.argv[1:]
    pc,            \* the statement of main that runs next
    values,        \* the parsed sequence
    indices,       \* positions of the next combination, <<>> when exhausted
    best_comb,     \* <<>> is None
    best_key,      \* <<>> is None
    evaluated,     \* loop bodies executed
    mean,
    mean_ceiled,
    stdout,
    stderr,
    exit_code,     \* -1 while the process runs
    cx,            \* argument of a direct call of ceil_to_thousandth
    cres           \* its result, and the result of applying it again

vars == <<argv, pc, values, indices, best_comb, best_key, evaluated, mean,
          mean_ceiled, stdout, stderr, exit_code, cx, cres>>

search == <<indices, best_comb, best_key, evaluated>>
ceilvars == <<cx, cres>>

\* ---- inputs --------------------------------------------------------------
CoreTokens == {Lit(7, 0), Lit(6, 0), Lit(8, 0), Lit(16000, 0), NanTok, Word}

RECURSIVE SeqsUpTo(_, _)
SeqsUpTo(S, n) ==
    IF n = 0 THEN {<<>>}
    ELSE LET shorter == SeqsUpTo(S, n - 1)
         IN  shorter \cup {Append(q, t) : q \in {r \in shorter : Len(r) = n - 1}, t \in S}

ScenarioArgvs ==
    { <<Lit(10, 1), Lit(70, 1), Lit(130, 1)>>,
      <<Lit(1356, 3), Lit(7522, 3), Lit(5498, 3), Lit(91, 1), Lit(20, 1)>>,
      <<Json(<<<<10, 1>>, <<20, 1>>>>)>>,
      <<Json(<<<<1356, 3>>, <<7522, 3>>, <<5498, 3>>, <<91, 1>>, <<20, 1>>>>)>>,
      <<Json(<<<<10, 1>>, <<70, 1>>, <<130, 1>>>>)>>,
      <<BadJson>>,
      <<Lit(10, 1), Lit(70, 1), Word>>,
      <<Lit(10, 1), Lit(70, 1), Json(<<<<3, 0>>>>)>>,
      <<Lit(1, 4), Lit(70, 1), Lit(70, 1)>>,
      <<Lit(8842, 3), Lit(586, 2), Lit(7972, 3)>>,
      <<Lit(7972, 3), Lit(586, 2), Lit(8842, 3)>>,
      <<Lit(2019, 3), Lit(2019, 3), Lit(2019, 3)>>,
      <<InfTok, Lit(1, 0), Lit(2, 0)>>,
      <<Lit(0 - 25, 1), Lit(15, 0), Lit(7, 0), Lit(14, 0)>> }

Argvs == SeqsUpTo(CoreTokens, MaxArgs) \cup ScenarioArgvs

CeilSpan == 3 * Unit
CeilInputs ==
    ((0 - CeilSpan)..CeilSpan) \cup {FromDec(7, 0), FromDec(70001, 4), FromDec(69999, 4)}

Init ==
    /\ argv \in Argvs
    /\ pc = "start"
    /\ values = <<>>
    /\ indices = <<>>
    /\ best_comb = <<>>
    /\ best_key = <<>>
    /\ evaluated = 0
    /\ mean = 0
    /\ mean_ceiled = 0
    /\ stdout = <<>>
    /\ stderr = <<>>
    /\ exit_code = 0 - 1
    /\ cx = 0
    /\ cres = <<>>

\* sys.exit(message), or an exception nobody catches: the message goes to
\* standard error and the status is 1
Fatal(m) ==
    /\ pc' = "done"
    /\ stderr' = Append(stderr, m)
    /\ exit_code' = 1

\* ---- main ----------------------------------------------------------------
\* if len(sys.argv) < 4: sys.exit(...)
CheckArgs ==
    /\ pc = "start"
    /\ IF Len(argv) + 1 < 4
       THEN Fatal(Msg("ArgumentCount", <<>>))
       ELSE pc' = "parse" /\ UNCHANGED <<stderr, exit_code>>
    /\ UNCHANGED <<argv, values, search, mean, mean_ceiled, stdout, ceilvars>>

\* values = parse_values(sys.argv[1:])
ParseValues ==
    /\ pc = "parse"
    /\ LET r == parse_values(argv)
       IN  IF r.ok
           THEN values' = r.vals /\ pc' = "warn" /\ UNCHANGED <<stderr, exit_code>>
           ELSE Fatal(Msg(r.err, <<>>)) /\ UNCHANGED values
    /\ UNCHANGED <<argv, search, mean, mean_ceiled, stdout, ceilvars>>

\* warn_out_of_range(values)
WarnOutOfRange ==
    /\ pc = "warn"
    /\ LET bad == BadValues(values)
       IN  stderr' = IF bad # <<>> THEN Append(stderr, Msg("Warning", bad)) ELSE stderr
    /\ pc' = "checklen"
    /\ UNCHANGED <<argv, values, search, mean, mean_ceiled, stdout, exit_code, ceilvars>>

\* if len(values) < K: sys.exit(...)
CheckLen ==
    /\ pc = "checklen"
    /\ IF Len(values) < K
       THEN Fatal(Msg("InsufficientValues", <<K, Len(values)>>))
       ELSE pc' = "init" /\ UNCHANGED <<stderr, exit_code>>
    /\ UNCHANGED <<argv, values, search, mean, mean_ceiled, stdout, ceilvars>>

\* best_comb = None; best_key = None; the for statement makes the iterator
InitSearch ==
    /\ pc = "init"
    /\ best_comb' = <<>>
    /\ best_key' = <<>>
    /\ indices' = FirstIndices(Len(values))
    /\ pc' = "loop"
    /\ UNCHANGED <<argv, values, evaluated, mean, mean_ceiled, stdout, stderr,
                   exit_code, ceilvars>>

\* one iteration of the for loop
LoopStep ==
    /\ pc = "loop"
    /\ indices # <<>>
    /\ LET r == SelectStep(best_comb, best_key, CombAt(values, indices))
       IN  best_comb' = r[1] /\ best_key' = r[2]
    /\ indices' = NextIndices(indices, Len(values))
    /\ evaluated' = evaluated + 1
    /\ UNCHANGED <<argv, pc, values, mean, mean_ceiled, stdout, stderr, exit_code,
                   ceilvars>>

\* the iterator is exhausted; s, mean and mean_ceiled of the best combination
Summarize ==
    /\ pc = "loop"
    /\ indices = <<>>
    /\ LET m == FDivInt(SumOf(best_comb), K)
           c == ceil_to_thousandth(m)
       IN  /\ mean' = m
           /\ IF c.ok
              THEN /\ mean_ceiled' = c.val
                   /\ pc' = "print1"
                   /\ UNCHANGED <<stderr, exit_code>>
              ELSE /\ Fatal(Msg(c.err, <<>>))
                   /\ UNCHANGED mean_ceiled
    /\ UNCHANGED <<argv, values, search, stdout, ceilvars>>

\* the float a text of repr() reads back as is the float printed, so the
\* first line is kept as the three floats
PrintTriple ==
    /\ pc = "print1"
    /\ stdout' = Append(stdout, Line("Best triple", best_comb))
    /\ pc' = "print2"
    /\ UNCHANGED <<argv, values, search, mean, mean_ceiled, stderr, exit_code, ceilvars>>

PrintMean ==
    /\ pc = "print2"
    /\ stdout' = Append(stdout, Line("Exact mean", Format12(mean)))
    /\ pc' = "print3"
    /\ UNCHANGED <<argv, values, search, mean, mean_ceiled, stderr, exit_code, ceilvars>>

\* the last statement of main; the process then ends with status 0
PrintCeiled ==
    /\ pc = "print3"
    /\ stdout' = Append(stdout, Line("Mean rounded UP", <<Format3(mean_ceiled)>>))
    /\ pc' = "done"
    /\ exit_code' = 0
    /\ UNCHANGED <<argv, values, search, mean, mean_ceiled, stderr, ceilvars>>

Next ==
    \/ CheckArgs
    \/ ParseValues
    \/ WarnOutOfRange
    \/ CheckLen
    \/ InitSearch
    \/ LoopStep
    \/ Summarize
    \/ PrintTriple
    \/ PrintMean
    \/ PrintCeiled

Spec == Init /\ [][Next]_vars

\* ---- ceil_to_thousandth called on its own --------------------------------
CeilInit ==
    /\ argv = <<>>
    /\ pc = "ceil"
    /\ values = <<>>
    /\ indices = <<>>
    /\ best_comb = <<>>
    /\ best_key = <<>>
    /\ evaluated = 0
    /\ mean = 0
    /\ mean_ceiled = 0
    /\ stdout = <<>>
    /\ stderr = <<>>
    /\ exit_code = 0 - 1
    /\ cx \in CeilInputs
    /\ cres = <<>>

CeilOnce ==
    /\ pc = "ceil"
    /\ cres = <<>>
    /\ cres' = <<ceil_to_thousandth(cx).val>>
    /\ UNCHANGED <<argv, pc, values, search, mean, mean_ceiled, stdout, stderr,
                   exit_code, cx>>

CeilAgain ==
    /\ pc = "ceil"
    /\ Len(cres) = 1
    /\ cres' = Append(cres, ceil_to_thousandth(cres[1]).val)
    /\ UNCHANGED <<argv, pc, values, search, mean, mean_ceiled, stdout, stderr,
                   exit_code, cx>>

CeilNext == CeilOnce \/ CeilAgain

SpecCeil == CeilInit /\ [][CeilNext]_vars

\* ---- vocabulary of the properties ----------------------------------------
\* the position triples i < j < k of a sequence of length n
Combs(n) == {ix \in [1..K -> 1..n] : ix[1] < ix[2] /\ ix[2] < ix[3]}

ValuesAt(ix) == <<values[ix[1]], values[ix[2]], values[ix[3]]>>

IdxLt(c, d) ==
    \/ c[1] < d[1]
    \/ c[1] = d[1] /\ c[2] < d[2]
    \/ c[1] = d[1] /\ c[2] = d[2] /\ c[3] < d[3]

\* the combinations the iterator has handed out so far
Enumerated == {c \in Combs(Len(values)) : indices = <<>> \/ IdxLt(c, indices)}

Choose3(n) == (n * (n - 1) * (n - 2)) \div 6

LoopFinished ==
    \/ pc = "loop" /\ indices = <<>>
    \/ pc \in {"print1", "print2", "print3"}
    \/ pc = "done" /\ evaluated > 0

NotNumber(t) == t.kind \in {"word", "json", "badjson"}

Warnings == SelectSeq(stderr, LAMBDA m : m.type = "Warning")

IsThousandth(x) == x = FromDec(Format3(x), 3)

\* C1: when the selection loop has finished, all C(n,3) combinations have been
\* evaluated and no combination of positions i<j<k has a key strictly smaller
\* than the key of the chosen combination.
C1_Optimal ==
    LoopFinished =>
        /\ evaluated = Choose3(Len(values))
        /\ \A ix \in Combs(Len(values)) : ~KeyLt(KeyOf(ValuesAt(ix)), KeyOf(best_comb))

\* C1 witness: five values, ten combinations evaluated, and the winner is not
\* the first combination.
C1_Witness ==
    /\ LoopFinished
    /\ Len(values) = 5
    /\ evaluated = 10
    /\ best_comb # <<values[1], values[2], values[3]>>

\* C2: a single JSON-array argument of at least 3 numbers ends with status 0
\* and the three-line report that the same numbers give as separate tokens.
C2_JsonAccepted ==
    (pc = "done" /\ Len(argv) = 1 /\ argv[1].kind = "json" /\ Len(argv[1].elems) >= K) =>
        /\ exit_code = 0
        /\ Len(stdout) = 3
        /\ stdout = ReportOf([i \in 1..Len(argv[1].elems) |->
                                 FromDec(argv[1].elems[i][1], argv[1].elems[i][2])])

\* C3: a single JSON-array argument of fewer than 3 numbers ends with the
\* message that gives the required count and the count received, status
\* non-zero, nothing on standard output.
C3_InsufficientValues ==
    (pc = "done" /\ Len(argv) = 1 /\ argv[1].kind = "json" /\ Len(argv[1].elems) < K) =>
        /\ stderr = <<Msg("InsufficientValues", <<K, Len(argv[1].elems)>>)>>
        /\ exit_code # 0
        /\ stdout = <<>>

\* C4: every permutation of the input gives the same multiset of three
\* reported values, the same exact mean and the same rounded-up mean.
C4_OrderIndependent ==
    (pc = "done" /\ exit_code = 0) =>
        \A f \in Permutations(1..Len(values)) :
            LET r == ReportOf([i \in 1..Len(values) |-> values[f[i]]])
            IN  /\ Len(r) = 3
                /\ SortedTuple(r[1].vals) = SortedTuple(stdout[1].vals)
                /\ r[2] = stdout[2]
                /\ r[3] = stdout[3]

\* C5: a run ends with status 0 and exactly the three report lines, or with
\* a non-zero status, a message on standard error, nothing on standard output
\* and no combination evaluated.
C5_TwoOutcomes ==
    pc = "done" =>
        \/ exit_code = 0 /\ Len(stdout) = 3
        \/ exit_code > 0 /\ stderr # <<>> /\ stdout = <<>> /\ evaluated = 0

\* C6: the reported triple is the values at three positions i<j<k of the
\* input sequence, in input order.
C6_Member ==
    stdout # <<>> =>
        \E i, j, k \in 1..Len(values) :
            i < j /\ j < k /\ stdout[1].vals = <<values[i], values[j], values[k]>>

\* C6 witness: a report of a run with a repeated input value whose triple is
\* not in ascending order.
C6_Witness ==
    /\ Len(stdout) = 3
    /\ \E i, j \in 1..Len(values) : i < j /\ values[i] = values[j]
    /\ stdout[1].vals # SortedTuple(stdout[1].vals)

\* C7: for at least 3 decimal number tokens there is one warning that lists
\* exactly the out-of-range values when there are any and none otherwise, the
\* values are the parsed ones, and the run ends with status 0 and the report
\* of those values.
C7_Advisory ==
    (pc = "done" /\ Len(argv) >= K /\ \A i \in 1..Len(argv) : argv[i].kind = "lit") =>
        LET parsed == [i \in 1..Len(argv) |-> ToFloat(argv[i])]
            bad == SelectSeq(parsed, OutOfRange)
        IN  /\ values = parsed
            /\ Warnings = IF bad = <<>> THEN <<>> ELSE <<Msg("Warning", bad)>>
            /\ exit_code = 0
            /\ Len(stdout) = 3
            /\ stdout = ReportOf(parsed)

\* C8: with at least 3 arguments of which one is no number, the run goes from
\* parsing straight to its end: one parse error message and nothing else on
\* standard error, status non-zero, nothing on standard output, no
\* combination evaluated.
C8_ParseError ==
    (Len(argv) >= K /\ \E i \in 1..Len(argv) : NotNumber(argv[i])) =>
        /\ pc \in {"start", "parse", "done"}
        /\ evaluated = 0
        /\ stdout = <<>>
        /\ pc = "done" => (stderr = <<Msg("ParseError", <<>>)>> /\ exit_code > 0)

\* C8 witness: a finished run whose arguments mix a bracketed JSON array with
\* number tokens.
C8_Witness ==
    /\ pc = "done"
    /\ Len(argv) >= K
    /\ \E i \in 1..Len(argv) : argv[i].kind = "json"
    /\ \E i \in 1..Len(argv) : argv[i].kind = "lit"
    /\ exit_code = 1

\* C9: ceil_to_thousandth(x) is never below x, exceeds x by less than 0.001,
\* is x when x is a multiple of 0.001, and applied twice is the same as
\* applied once.
C9_CeilContract ==
    /\ Len(cres) >= 1 =>
          /\ cres[1] >= cx
          /\ (cres[1] - cx) * 1000 < Unit
          /\ IsThousandth(cx) => cres[1] = cx
    /\ Len(cres) = 2 => cres[2] = cres[1]

\* C10: after each iteration best_comb is the first enumerated combination
\* whose key no enumerated key is strictly below, best_key is its key, and no
\* earlier enumerated combination has that key.
C10_FirstMinimum ==
    (pc = "loop" /\ evaluated > 0) =>
        /\ Cardinality(Enumerated) = evaluated
        /\ \E c \in Enumerated :
              /\ best_comb = ValuesAt(c)
              /\ best_key = KeyOf(ValuesAt(c))
              /\ \A d \in Enumerated : ~KeyLt(KeyOf(ValuesAt(d)), best_key)
              /\ \A d \in Enumerated : KeyOf(ValuesAt(d)) = best_key => ~IdxLt(d, c)

\* C10 witness: the loop has finished and two combinations with different
\* value tuples share the minimal key.
C10_Witness ==
    /\ pc = "loop"
    /\ indices = <<>>
    /\ \E c, d \in Combs(Len(values)) :
          /\ IdxLt(c, d)
          /\ KeyOf(ValuesAt(c)) = best_key
          /\ KeyOf(ValuesAt(d)) = best_key
          /\ ValuesAt(c) # ValuesAt(d)
====
